---- MODULE Spec2Model ----
(***************************************************************************)
(* A model of InertiaForm (src/src/InertiaForm.js): the reactive form      *)
(* object, its dirty-tracking Proxy, and the submission life cycle         *)
(* submit -> grecaptcha.ready -> grecaptcha.execute -> inertia request ->  *)
(* completion callback -> setTimeout.                                      *)
(*                                                                         *)
(* JavaScript values are modelled as strings.  Undefined is the value of a *)
(* property that was never assigned.  Obj stands for any non-null object   *)
(* value (array or mapping): util.merge deep-clones what it copies, so an  *)
(* object stored in `initial` is never the same reference as an object     *)
(* written to the form, and `!==` between two objects is always true.      *)
(***************************************************************************)
EXTENDS Integers, Sequences, FiniteSets, Bags, TLC

\* ---------------------------------------------------------------- bounds

\* How many submissions (valid submit() calls that reach grecaptcha.ready)
\* one behaviour issues.
MaxSubmits == 2

\* How many nodes (leaves, mappings, sequences) a field value scanned by
\* hasFiles() has at most.
MaxNodes == 4

\* ------------------------------------------------------------ value space

Undefined == "undefined"
Obj == "[object Object]"

\* ./util reservedFieldNames (the file is not part of src/; the list is the
\* one the specification gives: the bookkeeping flags, `initial` and the
\* internal option / collaborator slots).
reservedFieldNames ==
    {"processing", "successful", "recentlySuccessful", "isDirty", "initial",
     "__options", "__inertia", "__page"}

\* ./util isArray, on the encoding of withData's argument: a record
\* [array |-> TRUE, names |-> <<..>>, map |-> <<>>] is a sequence of field
\* names, [array |-> FALSE, names |-> <<..>>, map |-> f] is the mapping f,
\* whose keys `for (field in data)` visits in the order of names.
isArray(data) == data.array

\* ./util guardAgainstReservedFieldName(field): whether it returns without
\* throwing (the specification: reserved names are rejected with a fatal
\* configuration error).
guardAgainstReservedFieldName(field) == field \notin reservedFieldNames

\* ./util merge's cloneDeep: a structural copy.  Primitives are returned as
\* they are; an object yields a fresh object with the same content, which the
\* encoding writes as Obj again (freshness shows in StrictEqual).
cloneDeep(v) == v

\* ./util merge(a, b): for (key in b) a[key] = cloneDeep(b[key]).
merge(a, b) ==
    [k \in (DOMAIN a) \cup (DOMAIN b) |->
        IF k \in DOMAIN b THEN cloneDeep(b[k]) ELSE a[k]]

\* JavaScript `===` between a value written to the form and a value held in
\* `initial`: equal primitives are equal, two objects are different
\* references.
StrictEqual(v, w) == v = w /\ v # Obj

\* obj[prop] for a property that may be absent.
Get(obj, prop) == IF prop \in DOMAIN obj THEN obj[prop] ELSE Undefined

\* ------------------------------------------------------------------ state

VARIABLES
    fields,             \* the user fields stored on the form object
    initial,            \* this.initial
    processing,         \* this.processing
    successful,         \* this.successful
    recentlySuccessful, \* this.recentlySuccessful
    isDirty,            \* this.isDirty
    options,            \* this.__options
    page,               \* what this.__page() returns: the page's errorBags
    grecaptcha,         \* whether window.grecaptcha exists
    subs,               \* the bag of submissions issued, each with its stage
    timers,             \* pending setTimeout callbacks of onSuccess
    op                  \* the last operation and what it did to its callers

vars == <<fields, initial, processing, successful, recentlySuccessful, isDirty,
          options, page, grecaptcha, subs, timers, op>>

formVars == <<fields, initial, processing, successful, recentlySuccessful,
              isDirty>>

\* The form object as one value, so that a method is a function of `this`.
This ==
    [fields |-> fields, initial |-> initial, processing |-> processing,
     successful |-> successful, recentlySuccessful |-> recentlySuccessful,
     isDirty |-> isDirty, options |-> options, timers |-> timers]

\* The variables of the form object take the values of the record s.
Store(s) ==
    /\ fields' = s.fields
    /\ initial' = s.initial
    /\ processing' = s.processing
    /\ successful' = s.successful
    /\ recentlySuccessful' = s.recentlySuccessful
    /\ isDirty' = s.isDirty
    /\ options' = s.options
    /\ timers' = s.timers

\* --------------------------------------------------------------- methods

\* The set trap that stores the value and never marks the form dirty.
ProxySet_NoDirty(this, prop, value) ==
    [this EXCEPT !.fields = (prop :> value) @@ this.fields]

\* The Proxy's set trap for a user field: obj[prop] = value, and the form
\* becomes dirty when prop is not reserved and value !== obj.initial[prop].
ProxySet(this, prop, value) ==
    [this EXCEPT
        !.fields = (prop :> value) @@ this.fields,
        !.isDirty = IF /\ prop \notin reservedFieldNames
                       /\ ~StrictEqual(value, Get(this.initial, prop))
                    THEN TRUE ELSE @]

\* A loop `this[key] = src[key]` over the keys of src, each assignment going
\* through the set trap.  A key that is no reserved name is a user field and
\* marks the form dirty when its value !== initial[key]; a reserved key is
\* the bookkeeping property of that name (processing, successful, ...), which
\* the assignment overwrites.  The assignments touch different properties and
\* isDirty only ever goes to true, so the iteration order does not show.
AssignAll(this, src) ==
    LET user  == (DOMAIN src) \ reservedFieldNames
        slots == (DOMAIN src) \cap reservedFieldNames \cap (DOMAIN this)
        s1 == [this EXCEPT
                 !.fields = [k \in (DOMAIN this.fields) \cup user |->
                                IF k \in user THEN src[k] ELSE this.fields[k]],
                 !.isDirty = \/ @
                             \/ \E k \in user :
                                   ~StrictEqual(src[k], Get(this.initial, k))]
    IN  [k \in DOMAIN s1 |-> IF k \in slots THEN src[k] ELSE s1[k]]

\* setInitialValues(values): this.initial = {}; merge(this.initial, values).
setInitialValues(this, values) ==
    [this EXCEPT !.initial = merge(<<>>, values)]

\* reset() that clears isDirty and restores nothing.
reset_OnlyClearsDirty(this) ==
    [this EXCEPT !.isDirty = FALSE]

\* reset() without its last statement.
reset_KeepsDirty(this) ==
    AssignAll(this, [k \in DOMAIN this.initial |-> cloneDeep(this.initial[k])])

\* reset(): merge(this, this.initial), whose assignments to `this` go through
\* the set trap; then this.isDirty = false.
reset(this) ==
    [AssignAll(this, [k \in DOMAIN this.initial |-> cloneDeep(this.initial[k])])
        EXCEPT !.isDirty = FALSE]

\* The array form of withData's argument: every name starts as ''.
ArrayToObject(names) ==
    [k \in {names[i] : i \in 1..Len(names)} |-> ""]

\* withData(data), for data whose field names pass
\* guardAgainstReservedFieldName.
withData(this, data) ==
    LET d  == IF isArray(data) THEN ArrayToObject(data.names) ELSE data.map
        s1 == setInitialValues(this, d)
        s2 == [s1 EXCEPT !.processing = FALSE, !.successful = FALSE]
        s3 == AssignAll(s2, d)
    IN  [s3 EXCEPT !.isDirty = FALSE]

\* withData(data) for any data: setInitialValues(data) and the two flags
\* come first; the loop then guards and assigns field after field, and the
\* guard's throw leaves the loop at the first reserved name, after the fields
\* before it were assigned and before isDirty is cleared.
withDataGuarded(this, data) ==
    LET d   == IF isArray(data) THEN ArrayToObject(data.names) ELSE data.map
        bad == {i \in 1..Len(data.names) :
                  ~guardAgainstReservedFieldName(data.names[i])}
        first == CHOOSE i \in bad : \A j \in bad : i <= j
        s1 == setInitialValues(this, d)
        s2 == [s1 EXCEPT !.processing = FALSE, !.successful = FALSE]
        assigned == [k \in {data.names[i] : i \in 1..(first - 1)} |-> d[k]]
    IN  IF bad = {}
        THEN [threw |-> "", this |-> withData(this, data)]
        ELSE [threw |-> "Error", this |-> AssignAll(s2, assigned)]

DefaultOptions ==
    [bag |-> "default", resetOnSuccess |-> TRUE, setInitialOnSuccess |-> FALSE]

\* withOptions(options): the defaults, each overridden by the key the caller
\* gives.  An options argument is a function from the keys given.
withOptions(this, o) ==
    [this EXCEPT !.options =
        [k \in DOMAIN DefaultOptions |->
            IF k \in DOMAIN o THEN o[k] ELSE DefaultOptions[k]]]

\* data() iterating the form's own fields instead of initial's keys.
data_OwnFields(this) ==
    [p \in DOMAIN this.fields |-> this.fields[p]]
        @@ ("_error_bag" :> this.options.bag)

\* data(): the marker, then this[property] for every property of initial.
data(this) ==
    [p \in DOMAIN this.initial |-> Get(this.fields, p)]
        @@ ("_error_bag" :> this.options.bag)

\* hasErrors() looking at every bag of the page.
hasErrors_AnyBag(this, pg) ==
    \E b \in DOMAIN pg : DOMAIN pg[b] # {}

\* hasErrors(), on the page the accessor returns.  errorBags maps a bag name
\* to a bag; a bag is an object whose keys are field names, written as the
\* sequence of its <<field, messages>> entries in the order
\* Object.keys / Object.values visit them.
hasErrors(this, pg) ==
    /\ this.options.bag \in DOMAIN pg
    /\ DOMAIN pg[this.options.bag] # {}

\* bag[field] for a field the bag holds.
Messages(bag, field) ==
    bag[CHOOSE i \in DOMAIN bag : bag[i][1] = field][2]

\* Whether bag[field] is truthy: the key exists (its value is an array).
HasField(bag, field) == \E i \in DOMAIN bag : bag[i][1] = field

\* Whether a value error() returned is truthy.
Truthy(message) == message \notin {Undefined, ""}

\* error(field): undefined unless the bag has errors, holds the field and the
\* field has a message; else the field's first message.
error(this, pg, field) ==
    IF \/ ~hasErrors(this, pg)
       \/ ~HasField(pg[this.options.bag], field)
       \/ Len(Messages(pg[this.options.bag], field)) = 0
    THEN Undefined
    ELSE Messages(pg[this.options.bag], field)[1]

RECURSIVE ConcatValues(_)

\* Object.values(bag).reduce((a, b) => a.concat(b), []).
ConcatValues(bag) ==
    IF bag = <<>> THEN <<>> ELSE Head(bag)[2] \o ConcatValues(Tail(bag))

\* The default of errors()'s parameter.
NoField == "null"

\* errors(field = null): without a field, every message of the bag when it
\* has errors; with one, the field's messages when error(field) is truthy.
errors(this, pg, field) ==
    IF field = NoField
    THEN IF hasErrors(this, pg)
         THEN ConcatValues(pg[this.options.bag]) ELSE <<>>
    ELSE IF Truthy(error(this, pg, field))
         THEN Messages(pg[this.options.bag], field) ELSE <<>>

\* onSuccess() testing setInitialOnSuccess before resetOnSuccess.
onSuccess_SnapshotWins(this) ==
    LET s1 == [this EXCEPT !.successful = TRUE,
                           !.recentlySuccessful = TRUE,
                           !.timers = @ + 1]
        d  == data(s1)
        snapshot == [k \in (DOMAIN d) \ {"_error_bag"} |-> d[k]]
    IN  IF s1.options.setInitialOnSuccess
        THEN [setInitialValues(s1, snapshot) EXCEPT !.isDirty = FALSE]
        ELSE IF s1.options.resetOnSuccess THEN reset(s1) ELSE s1

\* onSuccess() without its else-if branch.
onSuccess_NoSnapshot(this) ==
    LET s1 == [this EXCEPT !.successful = TRUE,
                           !.recentlySuccessful = TRUE,
                           !.timers = @ + 1]
    IN  IF s1.options.resetOnSuccess THEN reset(s1) ELSE s1

\* onSuccess(): the two flags, the 2000 ms timer, then reset or snapshot.
\* The snapshot is data() without its _error_bag entry.
onSuccess(this) ==
    LET s1 == [this EXCEPT !.successful = TRUE,
                           !.recentlySuccessful = TRUE,
                           !.timers = @ + 1]
        d  == data(s1)
        snapshot == [k \in (DOMAIN d) \ {"_error_bag"} |-> d[k]]
    IN  IF s1.options.resetOnSuccess
        THEN reset(s1)
        ELSE IF s1.options.setInitialOnSuccess
             THEN [setInitialValues(s1, snapshot) EXCEPT !.isDirty = FALSE]
             ELSE s1

\* onFail() without its second statement.
onFail_KeepsRecentlySuccessful(this) ==
    [this EXCEPT !.successful = FALSE]

\* onFail().
onFail(this) ==
    [this EXCEPT !.successful = FALSE, !.recentlySuccessful = FALSE]

\* __validateRequestType(requestType): whether it returns without throwing.
requestTypes == {"get", "post", "put", "patch", "delete"}

validRequestType(requestType) == requestType \in requestTypes

\* The closure without its first statement.
completionBookkeeping_KeepsProcessing(this, pg) ==
    IF ~hasErrors(this, pg) THEN onSuccess(this) ELSE onFail(this)

\* The bookkeeping of the closure `onSuccess` that submit() hands to the
\* navigation client, up to the call of the caller's own callback.
completionBookkeeping(this, pg) ==
    LET s1 == [this EXCEPT !.processing = FALSE]
    IN  IF ~hasErrors(s1, pg) THEN onSuccess(s1) ELSE onFail(s1)

\* The closure calling options.onSuccess(page) first.
callerSees_BeforeBookkeeping(before, after) ==
    [processing |-> before.processing, successful |-> before.successful,
     recentlySuccessful |-> before.recentlySuccessful,
     fields |-> before.fields, initial |-> before.initial,
     isDirty |-> before.isDirty]

\* What the caller's options.onSuccess(page) can observe of the form when
\* the closure calls it: the closure calls it last.
callerSees(before, after) ==
    [processing |-> after.processing, successful |-> after.successful,
     recentlySuccessful |-> after.recentlySuccessful,
     fields |-> after.fields, initial |-> after.initial,
     isDirty |-> after.isDirty]

\* submit() writing its flags before it validates the request type.
submitHead_FlagsFirst(this, requestType) ==
    [threw |-> IF validRequestType(requestType) THEN "" ELSE "Error",
     this  |-> [this EXCEPT !.processing = TRUE, !.successful = FALSE]]

\* The synchronous head of submit(): __validateRequestType throws before
\* anything is written; otherwise processing = true, successful = false.
submitHead(this, requestType) ==
    IF ~validRequestType(requestType)
    THEN [threw |-> "Error", this |-> this]
    ELSE [threw |-> "",
          this  |-> [this EXCEPT !.processing = TRUE, !.successful = FALSE]]

\* A submission that reached grecaptcha.ready(callback).  stage is where it
\* waits: "ready" for the ready callback, "token" for the promise of
\* grecaptcha.execute, "sent" for the navigation client's round trip, "done".
\* tokenRequested, tokenResolved and navCalls record what happened to it.
newSubmission(requestType, o) ==
    [requestType |-> requestType, options |-> o, stage |-> "ready",
     tokenRequested |-> FALSE, tokenResolved |-> FALSE, navCalls |-> 0]

\* The ready callback calling the navigation client without the token.
onReady_DispatchesAtOnce(sub) ==
    [sub EXCEPT !.stage = "token", !.tokenRequested = TRUE, !.navCalls = @ + 1]

\* The callback of grecaptcha.ready: grecaptcha.execute(...) is called.
onReady(sub) ==
    [sub EXCEPT !.stage = "token", !.tokenRequested = TRUE]

\* A token grecaptcha.execute resolves with.
Token == "03AGdBq2"

\* The then-callback without its delete branch.
navigationArgs_DeleteSendsData(this, sub) ==
    <<"url", ("token" :> Token) @@ data(this), "config">>

\* The arguments of this.__inertia[requestType](...) in the then-callback:
\* data = this.data() and data.token = token are evaluated there; delete gets
\* (url, config), every other method (url, data, config), config being
\* { ...options, onSuccess }.  No field of Spec's forms holds a file, so
\* hasFiles() is false and data is passed as it is.
navigationArgs(this, sub) ==
    IF sub.requestType = "delete"
    THEN <<"url", "config">>
    ELSE <<"url", ("token" :> Token) @@ data(this), "config">>

\* The then-callback of the token promise: this.__inertia[requestType](...).
onToken(sub) ==
    [sub EXCEPT !.stage = "sent", !.tokenResolved = TRUE, !.navCalls = @ + 1]

\* The closure `onSuccess` of a submission has run: nothing of the
\* submission is used again, and the record keeps what happened to it.
onDone(sub) ==
    [sub EXCEPT !.stage = "done", !.requestType = "", !.options = ""]

\* ----------------------------------------------------------------- inputs

\* Arguments of withData: a sequence of names, or a mapping.
DataInputs ==
    { [array |-> TRUE,  names |-> <<"name", "email">>, map |-> <<>>],
      [array |-> FALSE, names |-> <<"name">>, map |-> ("name" :> "a")] }

\* Arguments of withData that hold a reserved name: as the last key of a
\* mapping, as its first key, and in a sequence of names.
ReservedDataInputs ==
    { [array |-> FALSE, names |-> <<"name", "processing">>,
       map |-> ("name" :> "b") @@ ("processing" :> TRUE)],
      [array |-> FALSE, names |-> <<"processing", "email">>,
       map |-> ("processing" :> TRUE) @@ ("email" :> "a")],
      [array |-> TRUE, names |-> <<"email", "isDirty">>, map |-> <<>>] }

\* (prop, value) of a write form[prop] = value.
WriteInputs ==
    { <<"name", "">>, <<"name", "a">>, <<"email", Obj>> }

\* Arguments of withOptions.
OptionInputs ==
    { <<>>,
      ("setInitialOnSuccess" :> TRUE),
      ("resetOnSuccess" :> FALSE) @@ ("setInitialOnSuccess" :> TRUE),
      ("bag" :> "login") @@ ("resetOnSuccess" :> FALSE) }

\* errorBags of the page a round trip brings: the default bag empty, an error
\* in the default bag, an error in the bag "login" only (no default bag).
PageInputs ==
    { ("default" :> <<>>),
      ("default" :> << <<"email", <<"Invalid">>>> >>),
      ("login" :> << <<"email", <<"Required", "Invalid">>>> >>) }

\* errorBags of the pages the error accessors are asked about: no bag, an
\* empty bag, one field, two fields, a field without messages, a field whose
\* first message is the empty string, another bag only, and two bags.
ErrorPageInputs ==
    { <<>>,
      ("default" :> <<>>),
      ("default" :> << <<"email", <<"Invalid">>>> >>),
      ("default" :> << <<"name", <<"Required">>>>,
                       <<"email", <<"Invalid", "Taken">>>> >>),
      ("default" :> << <<"email", <<>>>> >>),
      ("default" :> << <<"email", <<"", "Invalid">>>> >>),
      ("login" :> << <<"email", <<"Required", "Invalid">>>> >>),
      ("default" :> << <<"name", <<"Required">>>> >>)
          @@ ("login" :> << <<"email", <<"Invalid">>>> >>) }

\* The field of an error query.
ErrorFieldInputs == {"name", "email"}

\* (requestType, options) of a submit() call.  post/put/patch default their
\* options to {}; delete(url) passes options = undefined.
SubmitInputs ==
    { <<"post", "none">>, <<"post", "callback">>,
      <<"delete", "undefined">>, <<"delete", "callback">>,
      <<"head", "none">> }

\* --------------------------------------------------------------- actions

\* No submission: the `sub` of an operation that concerns none.
NoSub ==
    [requestType |-> "", options |-> "", stage |-> "",
     tokenRequested |-> FALSE, tokenResolved |-> FALSE, navCalls |-> 0]

\* What `op` records of an operation: its name, its arguments, the submission
\* it concerned (as a completion found it, as any other step left it), the
\* error it threw, what each call of the caller's onSuccess callback saw,
\* whether the form was dirty when the operation began, and what a query
\* returned.
NoOp(name) ==
    [name |-> name, arg |-> <<>>, sub |-> NoSub, threw |-> "", cb |-> <<>>,
     wasDirty |-> isDirty, ret |-> <<>>]

\* The submissions with submission s replaced by t.
Moved(s, t) == (subs (-) SetToBag({s})) (+) SetToBag({t})

\* new InertiaForm(): the four flags false, withData({}), withOptions({}).
Blank ==
    [fields |-> <<>>, initial |-> <<>>, processing |-> FALSE,
     successful |-> FALSE, recentlySuccessful |-> FALSE, isDirty |-> FALSE,
     options |-> DefaultOptions, timers |-> 0]

\* The form a factory returns:
\* InertiaForm.create().withData(data).withOptions(options)...
Init ==
    \E d \in DataInputs, o \in OptionInputs :
        LET s == withOptions(withData(Blank, d), o) IN
        /\ fields = s.fields
        /\ initial = s.initial
        /\ processing = s.processing
        /\ successful = s.successful
        /\ recentlySuccessful = s.recentlySuccessful
        /\ isDirty = s.isDirty
        /\ options = s.options
        /\ timers = s.timers
        /\ page = <<>>
        /\ grecaptcha \in BOOLEAN
        /\ subs = EmptyBag
        /\ op = [NoOp("create") EXCEPT !.wasDirty = FALSE]

\* form[prop] = value, through the Proxy.
FieldWrite ==
    \E w \in WriteInputs :
        /\ Store(ProxySet(This, w[1], w[2]))
        /\ op' = [NoOp("write") EXCEPT !.arg = w]
        /\ UNCHANGED <<page, grecaptcha, subs>>

\* form.reset().
Reset ==
    /\ Store(reset(This))
    /\ op' = NoOp("reset")
    /\ UNCHANGED <<page, grecaptcha, subs>>

\* form.withData(data).
WithData ==
    \E d \in DataInputs :
        /\ Store(withData(This, d))
        /\ op' = NoOp("withData")
        /\ UNCHANGED <<page, grecaptcha, subs>>

\* submit() that returns at once while the form is processing.
Submit_Exclusive ==
    \E in \in SubmitInputs :
        LET h == submitHead(This, in[1]) IN
        /\ UNCHANGED <<page, grecaptcha>>
        /\ IF h.threw # ""
           THEN /\ Store(h.this)
                /\ op' = [NoOp("submit") EXCEPT !.arg = in, !.threw = h.threw]
                /\ UNCHANGED subs
           ELSE IF processing
           THEN /\ op' = [NoOp("submit") EXCEPT !.arg = in]
                /\ UNCHANGED <<formVars, options, timers, subs>>
           ELSE IF ~grecaptcha
           THEN /\ Store(h.this)
                /\ op' = [NoOp("submit") EXCEPT !.arg = in,
                                                !.threw = "TypeError"]
                /\ UNCHANGED subs
           ELSE /\ BagCardinality(subs) < MaxSubmits
                /\ Store(h.this)
                /\ subs' = subs (+) SetToBag({newSubmission(in[1], in[2])})
                /\ op' = [NoOp("submit") EXCEPT
                             !.arg = in,
                             !.sub = newSubmission(in[1], in[2])]

\* submit() going on without the CAPTCHA client when window.grecaptcha is
\* missing.
Submit_WithoutCaptcha ==
    \E in \in SubmitInputs :
        LET h == submitHead(This, in[1]) IN
        /\ Store(h.this)
        /\ UNCHANGED <<page, grecaptcha>>
        /\ IF h.threw # ""
           THEN /\ op' = [NoOp("submit") EXCEPT !.arg = in, !.threw = h.threw]
                /\ UNCHANGED subs
           ELSE /\ BagCardinality(subs) < MaxSubmits
                /\ subs' = subs (+) SetToBag({newSubmission(in[1], in[2])})
                /\ op' = [NoOp("submit") EXCEPT
                             !.arg = in,
                             !.sub = newSubmission(in[1], in[2])]

\* form.submit(requestType, url, options), also through post/put/patch/delete.
Submit ==
    \E in \in SubmitInputs :
        LET h == submitHead(This, in[1]) IN
        /\ Store(h.this)
        /\ UNCHANGED <<page, grecaptcha>>
        /\ IF h.threw # ""
           THEN /\ op' = [NoOp("submit") EXCEPT !.arg = in, !.threw = h.threw]
                /\ UNCHANGED subs
           ELSE IF ~grecaptcha
           THEN \* grecaptcha is undefined: grecaptcha.ready throws
                /\ op' = [NoOp("submit") EXCEPT !.arg = in,
                                                !.threw = "TypeError"]
                /\ UNCHANGED subs
           ELSE /\ BagCardinality(subs) < MaxSubmits
                /\ subs' = subs (+) SetToBag({newSubmission(in[1], in[2])})
                /\ op' = [NoOp("submit") EXCEPT
                             !.arg = in,
                             !.sub = newSubmission(in[1], in[2])]

\* grecaptcha calls the ready callback of a submission.
CaptchaReady ==
    \E s \in BagToSet(subs) :
        /\ s.stage = "ready"
        /\ subs' = Moved(s, onReady(s))
        /\ op' = [NoOp("ready") EXCEPT !.sub = onReady(s)]
        /\ UNCHANGED <<formVars, options, timers, page, grecaptcha>>

\* The token promise of a submission resolves.
TokenResolved ==
    \E s \in BagToSet(subs) :
        /\ s.stage = "token"
        /\ subs' = Moved(s, onToken(s))
        /\ op' = [NoOp("dispatch") EXCEPT
                     !.arg = <<s.requestType, navigationArgs(This, s)>>,
                     !.sub = onToken(s)]
        /\ UNCHANGED <<formVars, options, timers, page, grecaptcha>>

\* The navigation client finishes a round trip: the page is the response's,
\* and the closure `onSuccess` of the submission runs.
Complete ==
    \E sub \in BagToSet(subs), pg \in PageInputs :
        LET s == completionBookkeeping(This, pg)
            o == sub.options
        IN
        /\ sub.stage = "sent"
        /\ page' = pg
        /\ Store(s)
        /\ subs' = Moved(sub, onDone(sub))
        /\ op' = [NoOp("complete") EXCEPT
                     !.sub = sub,
                     !.threw = IF o = "undefined" THEN "TypeError" ELSE "",
                     !.cb = IF o = "callback"
                            THEN <<callerSees(This, s)>> ELSE <<>>]
        /\ UNCHANGED grecaptcha

\* A timer whose callback does not clear the flag.
TimerFire_NoClear ==
    /\ timers > 0
    /\ timers' = timers - 1
    /\ op' = NoOp("timer")
    /\ UNCHANGED <<fields, initial, processing, successful, recentlySuccessful,
                   isDirty, options, page, grecaptcha, subs>>

\* A timer set by onSuccess expires: this.recentlySuccessful = false.
TimerFire ==
    /\ timers > 0
    /\ timers' = timers - 1
    /\ recentlySuccessful' = FALSE
    /\ op' = NoOp("timer")
    /\ UNCHANGED <<fields, initial, processing, successful, isDirty, options,
                   page, grecaptcha, subs>>

\* form = InertiaForm.create(data).withOptions(options), for any data: when
\* withData throws, create returns nothing and the caller keeps the form it
\* had.
Construct ==
    \E d \in DataInputs \cup ReservedDataInputs, o \in OptionInputs :
        LET r == withDataGuarded(Blank, d) IN
        /\ IF r.threw # ""
           THEN UNCHANGED <<formVars, options, timers>>
           ELSE Store(withOptions(r.this, o))
        /\ op' = [NoOp("create") EXCEPT !.arg = d.names, !.threw = r.threw]
        /\ UNCHANGED <<page, grecaptcha, subs>>

\* form.withData(data), for any data.
WithDataAny ==
    \E d \in DataInputs \cup ReservedDataInputs :
        LET r == withDataGuarded(This, d) IN
        /\ Store(r.this)
        /\ op' = [NoOp("withData") EXCEPT !.arg = d.names, !.threw = r.threw]
        /\ UNCHANGED <<page, grecaptcha, subs>>

Next ==
    \/ FieldWrite
    \/ Reset
    \/ WithData
    \/ Submit
    \/ CaptchaReady
    \/ TokenResolved
    \/ Complete
    \/ TimerFire

Spec == Init /\ [][Next]_vars

\* The form in the hands of a caller who also passes reserved field names
\* (which Spec's callers never do): construction, withData, writes, reset().
GuardNext ==
    \/ Construct
    \/ WithDataAny
    \/ FieldWrite
    \/ Reset

GuardSpec == Init /\ [][GuardNext]_vars

\* ------------------------------------------------------------- hasFiles
\*
\* For hasFiles() a field value is a tree [kind, kids]: kind "null", "text"
\* (any primitive) or "file" with no kids, "map" (a nested mapping, its values
\* in for-in order) or "seq" (an array, its elements in order).

Null == [kind |-> "null", kids |-> <<>>]
Text == [kind |-> "text", kids |-> <<>>]
File == [kind |-> "file", kids |-> <<>>]

RECURSIVE Trees(_), Forests(_)

\* The values with exactly n nodes.
Trees(n) ==
    IF n = 1
    THEN {Null, Text, File, [kind |-> "map", kids |-> <<>>],
          [kind |-> "seq", kids |-> <<>>]}
    ELSE {[kind |-> k, kids |-> f] : k \in {"map", "seq"}, f \in Forests(n - 1)}

\* The non-empty sequences of values with n nodes in all.
Forests(n) ==
    UNION { {<<x>> \o f : x \in Trees(j),
                         f \in IF j = n THEN {<<>>} ELSE Forests(n - j)}
            : j \in 1..n }

FileValues == UNION {Trees(n) : n \in 1..MaxNodes}

\* ./util isFile(object): the file predicate.
isFile(object) == object.kind = "file"

\* typeof object === 'object', for an object that is not null.
typeofObject(object) == object.kind \in {"map", "seq", "file"}

RECURSIVE hasFilesDeep_FirstElementOnly(_)

\* hasFilesDeep() scanning only the first element of an array.
hasFilesDeep_FirstElementOnly(object) ==
    IF object.kind = "null" THEN FALSE
    ELSE IF /\ object.kind = "map"
            /\ \E i \in 1..Len(object.kids) :
                  hasFilesDeep_FirstElementOnly(object.kids[i])
         THEN TRUE
         ELSE IF object.kind = "seq" /\ Len(object.kids) > 0
              THEN hasFilesDeep_FirstElementOnly(object.kids[1])
              ELSE isFile(object)

RECURSIVE hasFilesDeep(_)

\* hasFilesDeep(object): null is no file; the loop over the own keys of
\* anything of type 'object' (an array is one) returns true at the first key
\* whose value has files; then an array returns the answer of its first
\* element; anything left is asked the file predicate.
hasFilesDeep(object) ==
    IF object.kind = "null" THEN FALSE
    ELSE IF /\ typeofObject(object)
            /\ \E i \in 1..Len(object.kids) : hasFilesDeep(object.kids[i])
         THEN TRUE
         ELSE IF object.kind = "seq" /\ Len(object.kids) > 0
              THEN hasFilesDeep(object.kids[1])
              ELSE isFile(object)

\* hasFiles(): hasFilesDeep(this[property]) for some property of initial.
hasFiles(this) ==
    \E property \in DOMAIN this.initial :
        hasFilesDeep(this.fields[property])

\* Forms InertiaForm.create(data) returns for a mapping data: field `a` holds
\* any value, and a field `b` is declared or not.  initial is the deep copy
\* of data, every field holds its value, the flags are false.
FilesInit ==
    \E a \in FileValues, b \in {<<>>, ("b" :> Text)} :
        /\ fields = ("a" :> a) @@ b
        /\ initial = ("a" :> a) @@ b
        /\ processing = FALSE
        /\ successful = FALSE
        /\ recentlySuccessful = FALSE
        /\ isDirty = FALSE
        /\ options = DefaultOptions
        /\ timers = 0
        /\ page = <<>>
        /\ grecaptcha = TRUE
        /\ subs = EmptyBag
        /\ op = [NoOp("create") EXCEPT !.wasDirty = FALSE]

\* form[prop] = value through the Proxy, for a leaf value: the form becomes
\* dirty unless the value is a primitive equal to initial[prop] (a File is an
\* object, never identical to the copy in initial).
FileWrite ==
    \E prop \in {"a", "b"}, value \in {Null, Text, File} :
        /\ fields' = (prop :> value) @@ fields
        /\ isDirty' = IF /\ prop \in DOMAIN initial
                         /\ value = initial[prop]
                         /\ ~typeofObject(value)
                      THEN isDirty ELSE TRUE
        /\ op' = NoOp("write")
        /\ UNCHANGED <<initial, processing, successful, recentlySuccessful,
                       options, timers, page, grecaptcha, subs>>

\* form.hasFiles(): the state is left alone.
HasFiles ==
    /\ op' = [NoOp("hasFiles") EXCEPT !.ret = <<hasFiles(This)>>]
    /\ UNCHANGED <<formVars, options, timers, page, grecaptcha, subs>>

FilesNext ==
    \/ FileWrite
    \/ HasFiles

FilesSpec == FilesInit /\ [][FilesNext]_vars

\* ------------------------------------------------------- error accessors

\* A navigation (of this form or of anything else on the page) replaces the
\* page the accessor returns.
Navigate ==
    \E pg \in ErrorPageInputs :
        /\ page' = pg
        /\ op' = NoOp("navigate")
        /\ UNCHANGED <<formVars, options, timers, grecaptcha, subs>>

\* form.hasErrors().
HasErrorsQuery ==
    /\ op' = [NoOp("hasErrors") EXCEPT !.ret = <<hasErrors(This, page)>>]
    /\ UNCHANGED <<formVars, options, timers, page, grecaptcha, subs>>

\* form.error(field).
ErrorQuery ==
    \E field \in ErrorFieldInputs :
        /\ op' = [NoOp("error") EXCEPT !.arg = <<field>>,
                                       !.ret = <<error(This, page, field)>>]
        /\ UNCHANGED <<formVars, options, timers, page, grecaptcha, subs>>

\* form.errors() and form.errors(field).
ErrorsQuery ==
    \E field \in ErrorFieldInputs \cup {NoField} :
        /\ op' = [NoOp("errors") EXCEPT !.arg = <<field>>,
                                        !.ret = <<errors(This, page, field)>>]
        /\ UNCHANGED <<formVars, options, timers, page, grecaptcha, subs>>

ErrorsNext ==
    \/ Navigate
    \/ HasErrorsQuery
    \/ ErrorQuery
    \/ ErrorsQuery

ErrorsSpec == Init /\ [][ErrorsNext]_vars

\* ----------------------------------------------------------------- claims

\* Did the step that led here run reset(): form.reset() itself, or a
\* successful completion with resetOnSuccess.
CalledReset(o, ok, opts) ==
    \/ o.name = "reset"
    \/ o.name = "complete" /\ ok /\ opts.resetOnSuccess

\* C1, as the claim states it: a write whose value differs from the stored
\* initial value leaves isDirty true, and once true isDirty goes back to false
\* only in a step that calls reset().
C1_OnlyResetClearsDirty ==
    [][ /\ (op'.name = "write" /\ op'.arg[2] # Get(initial, op'.arg[1]))
            => isDirty'
        /\ (isDirty /\ ~isDirty') => CalledReset(op', successful', options')
      ]_vars

\* C1, amended: a write whose value differs from the stored initial value
\* leaves isDirty true, and once true isDirty goes back to false only in
\* reset(), in withData(), or in a successful completion that resets
\* (resetOnSuccess) or takes a new snapshot (setInitialOnSuccess); no write
\* (not even of the initial value), submit, failed completion, token step or
\* timer clears it.
C1_DirtyUntilResetOrNewBaseline ==
    [][ /\ (op'.name = "write" /\ op'.arg[2] # Get(initial, op'.arg[1]))
            => isDirty'
        /\ (isDirty /\ ~isDirty') =>
              \/ CalledReset(op', successful', options')
              \/ op'.name = "withData"
              \/ /\ op'.name = "complete"
                 /\ successful'
                 /\ options'.setInitialOnSuccess
      ]_vars

\* C1 witness: the last write put a field back to its initial value and the
\* form is still dirty from an earlier write.
C1_Witness ==
    /\ op.name = "write"
    /\ op.arg[1] \in DOMAIN initial
    /\ op.arg[2] = initial[op.arg[1]]
    /\ fields[op.arg[1]] = initial[op.arg[1]]
    /\ op.wasDirty
    /\ isDirty

\* C2: reset() leaves every field declared in initial at its stored initial
\* value and isDirty false; initial, processing, successful,
\* recentlySuccessful (and the fields initial does not declare) are as before,
\* and a second reset() would change nothing.
C2_ResetRestoresInitial ==
    [][ op'.name = "reset" =>
          /\ \A f \in DOMAIN initial : Get(fields', f) = initial[f]
          /\ \A f \in (DOMAIN fields) \ (DOMAIN initial) :
                Get(fields', f) = fields[f]
          /\ DOMAIN fields' = (DOMAIN fields) \cup (DOMAIN initial)
          /\ ~isDirty'
          /\ initial' = initial
          /\ processing' = processing
          /\ successful' = successful
          /\ recentlySuccessful' = recentlySuccessful
          /\ reset(This') = This'
      ]_vars

\* C2 witness: reset() ran on a dirty form that had completed a submission
\* and holds a field initial does not declare.
C2_Witness ==
    /\ op.name = "reset"
    /\ op.wasDirty
    /\ ~isDirty
    /\ successful
    /\ (DOMAIN fields) \ (DOMAIN initial) # {}
    /\ \A f \in DOMAIN initial : fields[f] = initial[f]

\* The configured error bag is absent from the page's errorBags, or has no
\* key.
BagAbsentOrEmpty(pg, bag) == bag \notin DOMAIN pg \/ DOMAIN pg[bag] = {}

C4_FailureFrame ==
    [][ ( /\ op'.name = "complete"
          /\ ~BagAbsentOrEmpty(page', options.bag) )
        => /\ ~processing'
           /\ ~successful'
           /\ ~recentlySuccessful'
           /\ fields' = fields
           /\ initial' = initial
           /\ isDirty' = isDirty
           /\ timers' = timers
      ]_vars

\* C4 witness: a failed completion on a dirty form, while the timer of an
\* earlier success is still pending.
C4_Witness ==
    /\ op.name = "complete"
    /\ ~BagAbsentOrEmpty(page, options.bag)
    /\ isDirty
    /\ timers > 0
    /\ ~recentlySuccessful
    /\ \E f \in DOMAIN initial : fields[f] # initial[f]

\* C5: submit with a request type outside get/post/put/patch/delete throws,
\* and neither a flag, a field, initial, a submission (so no token request
\* and no navigation call) nor a timer changes.
C5_InvalidMethodThrowsFirst ==
    [][ ( /\ op'.name = "submit"
          /\ op'.arg[1] \notin {"get", "post", "put", "patch", "delete"} )
        => /\ op'.threw = "Error"
           /\ UNCHANGED <<fields, initial, processing, successful,
                          recentlySuccessful, isDirty, subs, timers, page>>
      ]_vars

\* C5 witness: submit("head") threw on a form that is successful and not
\* processing, with a submission of its own already finished.
C5_Witness ==
    /\ op.name = "submit"
    /\ op.arg[1] = "head"
    /\ op.threw = "Error"
    /\ successful
    /\ ~processing
    /\ \E s \in BagToSet(subs) : s.stage = "done"

\* C6: the navigation client is invoked at most once per submission and only
\* after the token of that submission resolved (which needs the token to have
\* been requested), with the method the submit asked for; and a submit with a
\* valid method leaves processing true and successful false while the token
\* of its submission is not yet requested.
C6_TokenBeforeDispatch ==
    /\ \A s \in BagToSet(subs) :
          /\ s.navCalls <= 1
          /\ s.navCalls >= 1 => s.tokenResolved
          /\ s.tokenResolved => s.tokenRequested
    /\ op.name = "dispatch" => op.arg[1] = op.sub.requestType
    /\ (op.name = "submit" /\ op.threw # "Error") =>
          /\ processing
          /\ ~successful
          /\ ~op.sub.tokenRequested

\* C6 witness: one submission has been handed to the navigation client while
\* another has requested its token and still waits for it.
C6_Witness ==
    /\ \E s \in BagToSet(subs) : s.navCalls = 1 /\ s.stage = "sent"
    /\ \E s \in BagToSet(subs) :
          s.tokenRequested /\ ~s.tokenResolved /\ s.navCalls = 0

\* C7: data() has exactly the keys _error_bag and those of initial,
\* _error_bag is the configured bag name and every other key is the field's
\* current value; a field of the form that initial does not declare is left
\* out.
C7_DataShape ==
    LET d == data(This) IN
    /\ DOMAIN d = {"_error_bag"} \cup DOMAIN initial
    /\ d["_error_bag"] = options.bag
    /\ \A f \in DOMAIN initial : d[f] = Get(fields, f)
    /\ \A f \in (DOMAIN fields) \ (DOMAIN initial) : f \notin DOMAIN d

\* C7 witness: the bag is not the default one, a declared field differs from
\* its initial value and the form holds a field initial does not declare.
C7_Witness ==
    /\ options.bag = "login"
    /\ \E f \in DOMAIN initial : fields[f] # initial[f]
    /\ (DOMAIN fields) \ (DOMAIN initial) # {}
    /\ data(This)["name"] = ""

\* C8: a completion that finds the configured bag absent or empty while
\* resetOnSuccess is disabled and setInitialOnSuccess is enabled makes initial
\* the current field values over the fields initial declared (no _error_bag
\* key), leaves the fields as they are and isDirty false; and reset() puts the
\* fields at the initial stored then.
C8_SnapshotOnSuccess ==
    [][ /\ ( /\ op'.name = "complete"
             /\ BagAbsentOrEmpty(page', options.bag)
             /\ ~options.resetOnSuccess
             /\ options.setInitialOnSuccess )
           => /\ initial' = [f \in DOMAIN initial |-> Get(fields, f)]
              /\ "_error_bag" \notin DOMAIN initial'
              /\ fields' = fields
              /\ ~isDirty'
              /\ successful'
        /\ op'.name = "reset"
           => \A f \in DOMAIN initial' : Get(fields', f) = initial'[f]
      ]_vars

\* The mappings withData can store in initial.
ConstructionData ==
    { IF isArray(d) THEN ArrayToObject(d.names) ELSE d.map : d \in DataInputs }

\* C8 witness: reset() restored a snapshot that no withData argument gives.
C8_Witness ==
    /\ op.name = "reset"
    /\ op.wasDirty
    /\ ~options.resetOnSuccess
    /\ options.setInitialOnSuccess
    /\ initial \notin ConstructionData
    /\ \A f \in DOMAIN initial : fields[f] = initial[f]

\* C9: when a completion runs for a submission whose options carry an
\* onSuccess callback, that callback is called once, whatever the outcome,
\* and what it sees is the form after the bookkeeping: processing false,
\* successful and recentlySuccessful as the outcome sets them, the fields,
\* initial and isDirty as the completion leaves them.
C9_CallerCallbackLast ==
    (op.name = "complete" /\ op.sub.options = "callback") =>
        /\ Len(op.cb) = 1
        /\ ~op.cb[1].processing
        /\ op.cb[1].successful = BagAbsentOrEmpty(page, options.bag)
        /\ op.cb[1].recentlySuccessful = BagAbsentOrEmpty(page, options.bag)
        /\ op.cb[1].processing = processing
        /\ op.cb[1].successful = successful
        /\ op.cb[1].recentlySuccessful = recentlySuccessful
        /\ op.cb[1].fields = fields
        /\ op.cb[1].initial = initial
        /\ op.cb[1].isDirty = isDirty

\* C9 witness: the callback ran after a failed completion of a form that was
\* successful before.
C9_Witness ==
    /\ op.name = "complete"
    /\ Len(op.cb) = 1
    /\ ~BagAbsentOrEmpty(page, options.bag)
    /\ ~op.cb[1].successful
    /\ timers > 0

\* The event loop runs every pending setTimeout callback.
LiveSpec == Spec /\ WF_vars(TimerFire)

\* C10: the expiry of the timer clears recentlySuccessful and changes nothing
\* else of the form (successful stays as it is); and in every behaviour in
\* which from some point on no submission is issued, recentlySuccessful is
\* eventually false for good, the timers alone seeing to it.
C10_TimerClearsRecentlySuccessful ==
    /\ [][ op'.name = "timer" =>
             /\ ~recentlySuccessful'
             /\ UNCHANGED <<fields, initial, processing, successful, isDirty,
                            subs>>
         ]_vars
    /\ [][ (~recentlySuccessful /\ recentlySuccessful') =>
             (op'.name = "complete" /\ successful') ]_vars
    /\ (<>[][BagCardinality(subs') = BagCardinality(subs)]_vars)
          => <>[](~recentlySuccessful)

\* C10 witness: the timer expired after a success and the form is successful,
\* not recently successful, with nothing outstanding.
C10_Witness ==
    /\ op.name = "timer"
    /\ successful
    /\ ~recentlySuccessful
    /\ timers = 0
    /\ subs # EmptyBag
    /\ \A s \in BagToSet(subs) : s.stage = "done"

\* C11, as the claim states it: constructing a form or calling withData with
\* data that holds a reserved field name throws, and no form ever declares a
\* reserved name as a user field (a key of initial, which is what data(),
\* hasFiles() and reset() take the user fields from) or holds one.
C11_ReservedNameNeverAccepted ==
    /\ ( /\ op.name \in {"create", "withData"}
         /\ \E i \in 1..Len(op.arg) : op.arg[i] \in reservedFieldNames )
       => op.threw = "Error"
    /\ (DOMAIN initial) \cap reservedFieldNames = {}
    /\ (DOMAIN fields) \cap reservedFieldNames = {}

\* C12: while window.grecaptcha is missing, a submit with a valid method
\* throws a TypeError after it set processing = true and successful = false;
\* no submission ever reaches the ready callback, the token, the navigation
\* client or the completion callback; successful and recentlySuccessful stay
\* false and no timer is set; and processing, once true, is cleared by
\* nothing but a withData() call.
C12_NoCaptchaNoCompletion ==
    /\ [](~grecaptcha =>
            /\ subs = EmptyBag
            /\ op.name \notin {"ready", "dispatch", "complete", "timer"}
            /\ ~successful /\ ~recentlySuccessful /\ timers = 0
            /\ (op.name = "submit" /\ op.arg[1] \in requestTypes) =>
                  (op.threw = "TypeError" /\ processing))
    /\ [][ (~grecaptcha /\ processing /\ ~processing')
              => op'.name = "withData" ]_vars

\* C12 witness: with no CAPTCHA client, a write followed a submit that threw
\* on a valid method, and the form is still processing.
C12_Witness ==
    /\ ~grecaptcha
    /\ op.name = "write"
    /\ processing
    /\ ~successful
    /\ isDirty
    /\ subs = EmptyBag

RECURSIVE Leaves(_)

\* The leaf values of a value: what is reached through nested mappings and
\* sequences and is neither.
Leaves(v) ==
    IF v.kind \in {"map", "seq"} /\ Len(v.kids) > 0
    THEN UNION {Leaves(v.kids[i]) : i \in 1..Len(v.kids)}
    ELSE {v}

Seq2(x, y) == [kind |-> "seq", kids |-> <<x, y>>]
Nest(kind, x) == [kind |-> kind, kids |-> <<x>>]

\* C13: hasFiles() returns true iff some leaf of the current value of a field
\* that initial declares is a file; so {a: ["text", file]} and
\* {a: {b: [file]}} give true, {a: "text"}, {a: null} and {a: []} give false,
\* and a file in a field initial does not declare does not count.
C13_HasFilesIffAnyLeaf ==
    op.name = "hasFiles" =>
        /\ op.ret[1] = (\E f \in DOMAIN initial :
                           \E l \in Leaves(fields[f]) : isFile(l))
        /\ fields = ("a" :> Seq2(Text, File)) => op.ret[1]
        /\ fields = ("a" :> Nest("map", Nest("seq", File))) => op.ret[1]
        /\ fields \in {("a" :> Text), ("a" :> Null),
                        ("a" :> [kind |-> "seq", kids |-> <<>>])} => ~op.ret[1]

\* C13 witness: hasFiles() returned true for a form whose only file sits in a
\* mapping that is the second element of a sequence.
C13_Witness ==
    /\ op.name = "hasFiles"
    /\ op.ret[1]
    /\ fields = ("a" :> Seq2(Text, Nest("map", File)))

\* The configured bag of the current page, the empty bag when it is absent.
ConfiguredBag ==
    IF options.bag \in DOMAIN page THEN page[options.bag] ELSE <<>>

\* C14, as the claim states it: every error query agrees with the configured
\* bag of the current page: hasErrors() iff the bag has a key; error(field)
\* the field's first message, undefined when the field is absent or has no
\* message; errors(field) the field's whole message sequence, empty when the
\* field is absent; errors() the messages of all fields in the bag's order.
C14_AccessorsAgreeWithBag ==
    /\ op.name = "hasErrors" => op.ret[1] = (Len(ConfiguredBag) > 0)
    /\ op.name = "error" =>
          op.ret[1] =
              IF /\ HasField(ConfiguredBag, op.arg[1])
                 /\ Len(Messages(ConfiguredBag, op.arg[1])) > 0
              THEN Messages(ConfiguredBag, op.arg[1])[1]
              ELSE Undefined
    /\ (op.name = "errors" /\ op.arg[1] # NoField) =>
          op.ret[1] =
              IF HasField(ConfiguredBag, op.arg[1])
              THEN Messages(ConfiguredBag, op.arg[1])
              ELSE <<>>
    /\ (op.name = "errors" /\ op.arg[1] = NoField) =>
          op.ret[1] = ConcatValues(ConfiguredBag)

C16_OutcomeByConfiguredBag ==
    op.name = "complete" =>
        /\ ~processing
        /\ successful = BagAbsentOrEmpty(page, options.bag)
        /\ recentlySuccessful = BagAbsentOrEmpty(page, options.bag)
        /\ BagAbsentOrEmpty(page, options.bag) =>
              /\ timers >= 1
              /\ (options.resetOnSuccess \/ options.setInitialOnSuccess) =>
                    /\ ~isDirty
                    /\ \A f \in DOMAIN initial : fields[f] = initial[f]
        /\ ~BagAbsentOrEmpty(page, options.bag) => isDirty = op.wasDirty

\* C16 witness: a form configured for the bag "login" completed successfully
\* on a page whose default bag holds an error.
C16_Witness ==
    /\ op.name = "complete"
    /\ options.bag = "login"
    /\ "default" \in DOMAIN page
    /\ page["default"] # <<>>
    /\ successful
    /\ recentlySuccessful

\* The submissions whose completion callback has not run.
Outstanding == {s \in BagToSet(subs) : s.stage # "done"}

\* C17: nothing excludes a submission while another is outstanding: every
\* submit with a valid method (the CAPTCHA client present) starts a
\* submission of its own and sets processing = true, successful = false,
\* whatever else is in flight; and every completion clears processing and
\* sets successful by its own outcome, whether or not other submissions are
\* still outstanding, so that later completions overwrite what earlier ones
\* left.
C17_NoMutualExclusion ==
    /\ (op.name = "submit" /\ op.arg[1] \in requestTypes /\ grecaptcha) =>
          /\ op.threw = ""
          /\ CopiesIn(op.sub, subs) >= 1
          /\ op.sub.stage = "ready"
          /\ processing
          /\ ~successful
    /\ (op.name = "complete" /\ Outstanding # {}) =>
          /\ ~processing
          /\ successful = BagAbsentOrEmpty(page, options.bag)
    /\ (op.name = "complete" /\ Outstanding = {}) =>
          successful = BagAbsentOrEmpty(page, options.bag)

\* C17 witness: the first of two submissions completed successfully and the
\* form says it is not processing, while the second, issued before that
\* completion, has been sent and is still outstanding.
C17_Witness ==
    /\ op.name = "complete"
    /\ ~processing
    /\ successful
    /\ \E s \in Outstanding : s.stage = "sent"
    /\ BagCardinality(subs) = 2

\* C18, as the claim states it.  The timers of onSuccess all wait 2000 ms, so
\* they expire in the order the completions set them: when a timer expires
\* and another is still pending, the expired one belongs to an earlier
\* success than the one that last set recentlySuccessful.  The claim:
\* recentlySuccessful goes from true to false only in a failed completion or
\* at the expiry of the last pending timer.
C18_EarlierTimerIsNoOp ==
    [][ (recentlySuccessful /\ ~recentlySuccessful') =>
          \/ op'.name = "complete" /\ ~successful'
          \/ op'.name = "timer" /\ timers' = 0
      ]_vars

\* The submission flow alone: the caller submits and calls withData(), and
\* the collaborators keep their promises: grecaptcha calls every ready
\* callback, every token promise resolves, and the navigation client calls
\* config.onSuccess once for every request it was handed, so that a step of
\* the flow that stays possible is eventually taken.
FlowStep ==
    \/ CaptchaReady
    \/ TokenResolved
    \/ Complete

FlowNext ==
    \/ Submit
    \/ WithData
    \/ FlowStep
    \/ TimerFire

FlowSpec == Init /\ [][FlowNext]_vars /\ WF_vars(FlowStep)

\* How many submissions are outstanding.
OutstandingCount == BagCardinality([s \in Outstanding |-> subs[s]])

\* C19, as the claim states it: processing is true from a submit until the
\* completion callback of its submission, so it is true whenever a submission
\* is outstanding.
C19_ProcessingWhileOutstanding ==
    Outstanding # {} => processing

\* C19, amended: a submit with a valid method leaves processing true; from
\* then on processing is cleared only by a completion callback (of this or of
\* another submission of the form) or by withData(), never by a CAPTCHA step
\* or a timer; a submission stops being outstanding only in its completion
\* callback, which leaves processing false with exactly one of the two
\* outcomes applied; and, the collaborators keeping their promises, every
\* submission's callback is eventually reached: from some point on nothing
\* is outstanding.
C19_SubmitRunsToCompletion ==
    /\ []( (op.name = "submit" /\ op.arg[1] \in requestTypes) => processing )
    /\ [][ (processing /\ ~processing') =>
              op'.name \in {"complete", "withData"} ]_vars
    /\ [][ OutstandingCount' < OutstandingCount =>
              /\ op'.name = "complete"
              /\ OutstandingCount' = OutstandingCount - 1 ]_vars
    /\ []( op.name = "complete" =>
              /\ ~processing
              /\ \/ successful /\ recentlySuccessful
                 \/ ~successful /\ ~recentlySuccessful )
    /\ <>[](Outstanding = {})

\* C19 witness: the only submission of the form has completed and failed;
\* the form is idle again, while the timer of no success is pending.
C19_Witness ==
    /\ op.name = "complete"
    /\ BagCardinality(subs) = 1
    /\ Outstanding = {}
    /\ ~processing
    /\ ~successful
    /\ timers = 0

\* C20: the navigation client is called with what the form holds when the
\* token resolves: for every method but delete the arguments are (url,
\* payload, config), the payload having the keys of initial with the fields'
\* current values, _error_bag with the configured bag name and token with
\* the token; for delete they are (url, config) and nothing else.
C20_PayloadAtTokenResolution ==
    op.name = "dispatch" =>
        IF op.arg[1] = "delete"
        THEN /\ Len(op.arg[2]) = 2
             /\ op.arg[2][1] = "url"
             /\ op.arg[2][2] = "config"
        ELSE /\ Len(op.arg[2]) = 3
             /\ op.arg[2][1] = "url"
             /\ op.arg[2][3] = "config"
             /\ DOMAIN op.arg[2][2] =
                   (DOMAIN initial) \cup {"_error_bag", "token"}
             /\ \A f \in DOMAIN initial : op.arg[2][2][f] = Get(fields, f)
             /\ op.arg[2][2]["_error_bag"] = options.bag
             /\ op.arg[2][2]["token"] = Token

\* C20 witness: the only submission of the form was dispatched as a post
\* while the form is dirty and not processing: after the submit, withData()
\* was called and then a field was written, and the payload carries the
\* written value, which is not the field's initial value.
C20_Witness ==
    /\ op.name = "dispatch"
    /\ op.arg[1] = "post"
    /\ BagCardinality(subs) = 1
    /\ ~processing
    /\ isDirty
    /\ \E f \in DOMAIN initial : op.arg[2][2][f] # initial[f]

====
